---- MODULE Spec2Model ----
(***************************************************************************)
(* tools/qodana-report.py: one invocation of the report tool, from the     *)
(* command line to the process exit.  main scans the argument list, checks *)
(* that the report file exists, parse_results loads and sorts the          *)
(* findings, print_results filters, summarises and prints them.            *)
(*                                                                         *)
(* Python values are modelled as strings.  None and an absent JSON key are *)
(* the two reserved strings below; no sampled input uses them as text.     *)
(* A JSON result entry is flattened to a record                            *)
(*   level, ruleId      : a string, None (JSON null) or MISSING            *)
(*   message            : "obj", None or MISSING                           *)
(*   text               : message.text, a string, None or MISSING          *)
(*   locations          : "list" (non-empty), "[]", None or MISSING        *)
(*   uri, startLine     : locations[0].physicalLocation.artifactLocation   *)
(*                        .uri and .region.startLine (the number's decimal *)
(*                        text), a string, None or MISSING                 *)
(* An uncaught Python exception ends the process with a traceback on       *)
(* standard error and exit status 1.                                       *)
(***************************************************************************)
EXTENDS Integers, Sequences, FiniteSets, TLC

None == "<None>"
MISSING == "<missing>"

\* ------------------------------------------------------------------ bounds
MaxArgs == 3
MaxResults == 3

\* ------------------------------------------------------- static configuration
DEFAULT_SARIF == "target/qodana-results/qodana.sarif.json"

LocWidth == 70
MsgLimit == 100
LevelWidth == 7
UnknownRank == 99

SEVERITY_ORDER == [l \in {"error", "warning", "note"} |->
                     CASE l = "error" -> 0 [] l = "warning" -> 1 [] l = "note" -> 2]

\* SEVERITY_ORDER.get(level, 99)
Rank(level) == IF level \in DOMAIN SEVERITY_ORDER THEN SEVERITY_ORDER[level] ELSE UnknownRank

PATH_SHORTCUTS ==
  << <<"proto-wrapper-core/src/main/java/io/alnovis/protowrapper/", "core:">>,
     <<"proto-wrapper-core/src/test/java/io/alnovis/protowrapper/", "core-test:">>,
     <<"proto-wrapper-maven-plugin/src/main/java/io/alnovis/protowrapper/", "maven:">>,
     <<"proto-wrapper-gradle-plugin/src/main/kotlin/io/alnovis/protowrapper/", "gradle:">>,
     <<"proto-wrapper-spring-boot-starter/", "spring:">>,
     <<"examples/", "examples:">> >>

\* str.startswith
StartsWith(s, prefix) ==
  Len(s) >= Len(prefix) /\ SubSeq(s, 1, Len(prefix)) = prefix

RECURSIVE ShortenFrom(_, _)
ShortenFrom(uri, k) ==
  IF k > Len(PATH_SHORTCUTS) THEN uri
  ELSE IF StartsWith(uri, PATH_SHORTCUTS[k][1])
       THEN PATH_SHORTCUTS[k][2] \o SubSeq(uri, Len(PATH_SHORTCUTS[k][1]) + 1, Len(uri))
       ELSE ShortenFrom(uri, k + 1)

shorten_path(uri) == ShortenFrom(uri, 1)

\* ------------------------------------------------------------ parse_results
\* dict.get(key, default): the default replaces an absent key only
Get(v, default) == IF v = MISSING THEN default ELSE v

\* an entry on which the loop body raises (None.get / None.startswith)
Raises(r) ==
  \/ r.message = None
  \/ /\ r.locations = "list"
     /\ r.uri = None

\* str(line) inside the f-string
Fmt(v) == IF v = None THEN "None" ELSE v

LocStr(r) ==
  IF r.locations = "list"
  THEN shorten_path(Get(r.uri, "")) \o ":" \o Fmt(Get(r.startLine, "?"))
  ELSE ""

Finding(r) ==
  [level    |-> Get(r.level, "note"),
   rule     |-> Get(r.ruleId, "unknown"),
   message  |-> IF r.message = MISSING THEN "" ELSE Get(r.text, ""),
   location |-> LocStr(r)]

\* sorted(seq, key=rank): stable, an element goes after every element whose
\* key is not larger
RECURSIVE InsertByRankUnstable(_, _)
InsertByRankUnstable(sorted, x) ==
  IF sorted = << >> THEN << x >>
  ELSE IF Rank(Head(sorted).level) < Rank(x.level)
       THEN << Head(sorted) >> \o InsertByRankUnstable(Tail(sorted), x)
       ELSE << x >> \o sorted

RECURSIVE InsertByRank(_, _)
InsertByRank(sorted, x) ==
  IF sorted = << >> THEN << x >>
  ELSE IF Rank(Head(sorted).level) <= Rank(x.level)
       THEN << Head(sorted) >> \o InsertByRank(Tail(sorted), x)
       ELSE << x >> \o sorted

RECURSIVE SortedByRank(_)
SortedByRank(seq) ==
  IF seq = << >> THEN << >>
  ELSE InsertByRank(SortedByRank(SubSeq(seq, 1, Len(seq) - 1)), seq[Len(seq)])

Parsed(raw) == [k \in 1..Len(raw) |-> Finding(raw[k])]

parse_results_unsorted(raw) == Parsed(raw)

\* the value parse_results returns for a report whose runs[0].results is raw
parse_results(raw) == SortedByRank(Parsed(raw))

\* ------------------------------------------------------------ print_results
FilteredStrict(rs, min_sev) ==
  IF min_sev = None \/ min_sev = ""
  THEN rs
  ELSE SelectSeq(rs, LAMBDA r : Rank(r.level) < Rank(min_sev))

\* lines 74-76: the findings print_results goes on with
Filtered(rs, min_sev) ==
  IF min_sev = None \/ min_sev = ""
  THEN rs
  ELSE SelectSeq(rs, LAMBDA r : Rank(r.level) <= Rank(min_sev))

\* counts[level] of lines 79-81
Count(rs, level) == Cardinality({n \in 1..Len(rs) : rs[n].level = level})

SummaryLevelsSeen == << "error", "warning", "note", "info" >>

\* the levels line 85 itemizes
SummaryLevels == << "error", "warning", "note" >>

\* summary_parts of lines 84-87: one (count, level) pair per itemized level present
SummaryParts(rs) ==
  LET part(n) == [count |-> Count(rs, SummaryLevels[n]), level |-> SummaryLevels[n]]
      all == [n \in 1..Len(SummaryLevels) |-> part(n)]
  IN  SelectSeq(all, LAMBDA p : p.count > 0)

SummaryLine(rs) == [kind |-> "summary", total |-> Len(rs), parts |-> SummaryParts(rs)]
BlankLine == [kind |-> "blank"]

RECURSIVE ByRuleOverwriting(_)
ByRuleOverwriting(rs) ==
  IF rs = << >> THEN << >>
  ELSE LET init == ByRuleOverwriting(SubSeq(rs, 1, Len(rs) - 1))
           r    == rs[Len(rs)]
           hit  == {n \in 1..Len(init) : init[n].rule = r.rule}
       IN  IF hit = {}
           THEN Append(init, [rule |-> r.rule, items |-> << r >>])
           ELSE [n \in 1..Len(init) |->
                   IF n \in hit
                   THEN [init[n] EXCEPT !.items = << r >>]
                   ELSE init[n]]

\* by_rule of lines 97-99: groups in first-seen order, members in list order
RECURSIVE ByRule(_)
ByRule(rs) ==
  IF rs = << >> THEN << >>
  ELSE LET init == ByRule(SubSeq(rs, 1, Len(rs) - 1))
           r    == rs[Len(rs)]
           hit  == {n \in 1..Len(init) : init[n].rule = r.rule}
       IN  IF hit = {}
           THEN Append(init, [rule |-> r.rule, items |-> << r >>])
           ELSE [n \in 1..Len(init) |->
                   IF n \in hit
                   THEN [init[n] EXCEPT !.items = Append(@, r)]
                   ELSE init[n]]

\* sorted(by_rule.items(), key=rank of x[1][0]["level"]), stable
RECURSIVE InsertGroup(_, _)
InsertGroup(sorted, g) ==
  IF sorted = << >> THEN << g >>
  ELSE IF Rank(Head(sorted).items[1].level) <= Rank(g.items[1].level)
       THEN << Head(sorted) >> \o InsertGroup(Tail(sorted), g)
       ELSE << g >> \o sorted

RECURSIVE SortedGroups(_)
SortedGroups(gs) ==
  IF gs = << >> THEN << >>
  ELSE InsertGroup(SortedGroups(SubSeq(gs, 1, Len(gs) - 1)), gs[Len(gs)])

GroupsOf(rs) == SortedGroups(ByRule(rs))

RECURSIVE Spaces(_)
Spaces(n) == IF n <= 0 THEN "" ELSE " " \o Spaces(n - 1)

\* s[:n]
Slice(s, n) == IF Len(s) <= n THEN s ELSE SubSeq(s, 1, n)

PadTruncating(s, width) == Slice(s \o Spaces(width - Len(s)), width)

\* format(s, "<width>") of a str: left-aligned in a field of at least width
Pad(s, width) == s \o Spaces(width - Len(s))

HeaderLine(g) ==
  [kind |-> "header", level |-> Pad(g.items[1].level, LevelWidth),
   rule |-> Fmt(g.rule), size |-> Len(g.items)]

ItemLines(g) == [n \in 1..Len(g.items) |-> [kind |-> "item", location |-> g.items[n].location]]

FlatLine(r) ==
  [kind |-> "flat", level |-> Pad(r.level, LevelWidth),
   loc |-> Pad(r.location, LocWidth), msg |-> Slice(r.message, MsgLimit)]

\* -------------------------------------------------------------------- state
VARIABLES
  argv,          \* sys.argv[1:]
  files,         \* the file system: path -> [kind, results]
  pc,            \* "args", "load", "print", "groups", "flat", "done"
  i,             \* main: index of the next argument, 0-based as in the code
  sarif_path, min_severity, group, quiet,   \* main's locals
  results,       \* main: the value of parse_results
  shown,         \* print_results: its local results after lines 74-76
  by_rule,       \* print_results: the sorted groups the loop of line 101 walks
  k,             \* print_results: findings or groups printed so far
  stdout, stderr,
  exit_code      \* the exit status, meaningful once pc = "done"

vars == << argv, files, pc, i, sarif_path, min_severity, group, quiet,
           results, shown, by_rule, k, stdout, stderr, exit_code >>

HelpFlagsShort == {"-h"}
HelpFlags     == {"-h", "--help"}
SeverityFlags == {"-s", "--severity"}
GroupFlags    == {"-g", "--group"}
QuietFlags    == {"-q", "--quiet"}

Absent  == [kind |-> "absent",  results |-> << >>]
Garbage == [kind |-> "garbage", results |-> << >>]
Sarif(raw) == [kind |-> "sarif", results |-> raw]

\* Path(p).exists(): the empty path is the working directory
Exists(p) == p = "" \/ (p \in DOMAIN files /\ files[p].kind # "absent")

\* open + json.load + data["runs"][0]["results"] succeed
Loads(p) == p \in DOMAIN files /\ files[p].kind = "sarif"

Exit(code) == /\ pc' = "done"
              /\ exit_code' = code

\* an uncaught exception: traceback on standard error, status 1
Crash == /\ Exit(1)
         /\ stderr' = Append(stderr, "Traceback (most recent call last):")

UsageLine == [kind |-> "usage"]

Arg == argv[i + 1]

\* ---------------------------------------------------------------------- main
\* lines 126-128
ArgHelp ==
  /\ pc = "args" /\ i < Len(argv)
  /\ Arg \in HelpFlags
  /\ stdout' = Append(stdout, UsageLine)
  /\ Exit(0)
  /\ UNCHANGED << argv, files, i, sarif_path, min_severity, group, quiet,
                  results, shown, by_rule, k, stderr >>

\* lines 129-131 and 141; args[i] past the end raises IndexError
ArgSeverity ==
  /\ pc = "args" /\ i < Len(argv)
  /\ Arg \in SeverityFlags
  /\ IF i + 1 < Len(argv)
     THEN /\ min_severity' = argv[i + 2]
          /\ i' = i + 2
          /\ UNCHANGED << pc, stderr, exit_code >>
     ELSE /\ Crash
          /\ i' = i + 1
          /\ UNCHANGED min_severity
  /\ UNCHANGED << argv, files, sarif_path, group, quiet, results, shown, by_rule, k, stdout >>

\* lines 132-133 and 141
ArgGroup ==
  /\ pc = "args" /\ i < Len(argv)
  /\ Arg \in GroupFlags
  /\ group' = TRUE
  /\ i' = i + 1
  /\ UNCHANGED << argv, files, pc, sarif_path, min_severity, quiet,
                  results, shown, by_rule, k, stdout, stderr, exit_code >>

\* lines 134-135 and 141
ArgQuiet ==
  /\ pc = "args" /\ i < Len(argv)
  /\ Arg \in QuietFlags
  /\ quiet' = TRUE
  /\ i' = i + 1
  /\ UNCHANGED << argv, files, pc, sarif_path, min_severity, group,
                  results, shown, by_rule, k, stdout, stderr, exit_code >>

KnownFlags == HelpFlags \cup SeverityFlags \cup GroupFlags \cup QuietFlags

\* lines 136-137 and 141
ArgPath ==
  /\ pc = "args" /\ i < Len(argv)
  /\ Arg \notin KnownFlags
  /\ ~StartsWith(Arg, "-")
  /\ sarif_path' = Arg
  /\ i' = i + 1
  /\ UNCHANGED << argv, files, pc, min_severity, group, quiet,
                  results, shown, by_rule, k, stdout, stderr, exit_code >>

ArgUnknownToStdout ==
  /\ pc = "args" /\ i < Len(argv)
  /\ Arg \notin KnownFlags
  /\ StartsWith(Arg, "-")
  /\ stdout' = Append(stdout, [kind |-> "error", text |-> "Unknown option: " \o Arg])
  /\ Exit(1)
  /\ UNCHANGED << argv, files, i, sarif_path, min_severity, group, quiet,
                  results, shown, by_rule, k, stderr >>

\* lines 138-140
ArgUnknown ==
  /\ pc = "args" /\ i < Len(argv)
  /\ Arg \notin KnownFlags
  /\ StartsWith(Arg, "-")
  /\ stderr' = Append(stderr, "Unknown option: " \o Arg)
  /\ Exit(1)
  /\ UNCHANGED << argv, files, i, sarif_path, min_severity, group, quiet,
                  results, shown, by_rule, k, stdout >>

\* line 124: the loop ends
ArgsDone ==
  /\ pc = "args" /\ i >= Len(argv)
  /\ pc' = "load"
  /\ UNCHANGED << argv, files, i, sarif_path, min_severity, group, quiet,
                  results, shown, by_rule, k, stdout, stderr, exit_code >>

\* lines 143-146
FileNotFound ==
  /\ pc = "load"
  /\ ~Exists(sarif_path)
  /\ stderr' = stderr \o << "SARIF file not found: " \o sarif_path,
                            "Run 'qodana scan --results-dir=target/qodana-results' first." >>
  /\ Exit(1)
  /\ UNCHANGED << argv, files, i, sarif_path, min_severity, group, quiet,
                  results, shown, by_rule, k, stdout >>

\* line 148: parse_results returns
ParseResults ==
  /\ pc = "load"
  /\ Exists(sarif_path)
  /\ Loads(sarif_path)
  /\ \A n \in 1..Len(files[sarif_path].results) : ~Raises(files[sarif_path].results[n])
  /\ results' = parse_results(files[sarif_path].results)
  /\ pc' = "print"
  /\ UNCHANGED << argv, files, i, sarif_path, min_severity, group, quiet,
                  shown, by_rule, k, stdout, stderr, exit_code >>

\* line 148: parse_results raises (open, json.load, a missing key, None.get)
ParseFails ==
  /\ pc = "load"
  /\ Exists(sarif_path)
  /\ \/ ~Loads(sarif_path)
     \/ \E n \in 1..Len(files[sarif_path].results) : Raises(files[sarif_path].results[n])
  /\ Crash
  /\ UNCHANGED << argv, files, i, sarif_path, min_severity, group, quiet,
                  results, shown, by_rule, k, stdout >>

\* ------------------------------------------------------------- print_results
\* lines 74-93 (and 97-101 in group mode): filter, summary, blank line
PrintSummary ==
  /\ pc = "print"
  /\ LET rs == Filtered(results, min_severity) IN
       /\ shown' = rs
       /\ stdout' = stdout \o << SummaryLine(rs), BlankLine >>
       /\ IF quiet
          THEN /\ Exit(0)
               /\ UNCHANGED by_rule
          ELSE IF group
               THEN /\ by_rule' = GroupsOf(rs)
                    /\ pc' = "groups"
                    /\ UNCHANGED exit_code
               ELSE /\ pc' = "flat"
                    /\ UNCHANGED << by_rule, exit_code >>
  /\ k' = 0
  /\ UNCHANGED << argv, files, i, sarif_path, min_severity, group, quiet, results, stderr >>

\* lines 101-106, one group; format(None, "7") raises TypeError
PrintGroup ==
  /\ pc = "groups" /\ k < Len(by_rule)
  /\ LET g == by_rule[k + 1] IN
       IF g.items[1].level = None
       THEN /\ Crash
            /\ UNCHANGED << k, stdout >>
       ELSE /\ stdout' = stdout \o << HeaderLine(g) >> \o ItemLines(g) \o << BlankLine >>
            /\ k' = k + 1
            /\ UNCHANGED << pc, stderr, exit_code >>
  /\ UNCHANGED << argv, files, i, sarif_path, min_severity, group, quiet,
                  results, shown, by_rule >>

\* lines 109-113, one finding; None[:100] and format(None, "7") raise TypeError
PrintFlat ==
  /\ pc = "flat" /\ k < Len(shown)
  /\ LET r == shown[k + 1] IN
       IF r.message = None \/ r.level = None
       THEN /\ Crash
            /\ UNCHANGED << k, stdout >>
       ELSE /\ stdout' = Append(stdout, FlatLine(r))
            /\ k' = k + 1
            /\ UNCHANGED << pc, stderr, exit_code >>
  /\ UNCHANGED << argv, files, i, sarif_path, min_severity, group, quiet,
                  results, shown, by_rule >>

\* print_results and main return: status 0
Return ==
  /\ \/ pc = "groups" /\ k >= Len(by_rule)
     \/ pc = "flat" /\ k >= Len(shown)
  /\ Exit(0)
  /\ UNCHANGED << argv, files, i, sarif_path, min_severity, group, quiet,
                  results, shown, by_rule, k, stdout, stderr >>

Next ==
  \/ ArgHelp \/ ArgSeverity \/ ArgGroup \/ ArgQuiet \/ ArgPath \/ ArgUnknown \/ ArgsDone
  \/ FileNotFound \/ ParseResults \/ ParseFails
  \/ PrintSummary \/ PrintGroup \/ PrintFlat \/ Return

\* --------------------------------------------------------------- the inputs
SeqsUpTo(S, n) == UNION {[1..m -> S] : m \in 0..n}

LocalPath == "r.sarif.json"
Paths == {DEFAULT_SARIF, LocalPath}

UriFit == "examples/maven-example/src/main/java/com/example/OrderServiceIm.java"
UriLong == "proto-wrapper-gradle-plugin/src/test/kotlin/io/alnovis/protowrapper/gradle/PluginFunctionalTest.kt"
UriCore == "proto-wrapper-core/src/main/java/io/alnovis/protowrapper/generator/ConflictHandler.java"
Msg100 == "Field 'handlers' is never assigned, so every read of it in this class yields the default null value."
Msg111 == Msg100 \o " Remove it."

Entry(level, ruleId, message, text, locations, uri, startLine) ==
  [level |-> level, ruleId |-> ruleId, message |-> message, text |-> text,
   locations |-> locations, uri |-> uri, startLine |-> startLine]

\* entries that differ in severity and rule only
LevelRuleEntries ==
  { Entry(l, r, "obj", "boom", "list", UriCore, "7") :
      l \in {"error", "warning", "note", "info"}, r \in {"A", "B"} }

\* entries that differ in which keys are present, null or long
MessageShapes ==
  { << MISSING, MISSING >>, << None, MISSING >>, << "obj", MISSING >>, << "obj", None >>,
    << "obj", "boom" >>, << "obj", Msg100 >>, << "obj", Msg111 >> }
LocationShapes ==
  { << MISSING, MISSING, MISSING >>, << "[]", MISSING, MISSING >>, << None, MISSING, MISSING >>,
    << "list", MISSING, MISSING >>, << "list", UriCore, "7" >>, << "list", UriFit, "7" >>,
    << "list", UriLong, "12" >>, << "list", None, "7" >>, << "list", UriCore, None >> }
ShapeEntries ==
  { Entry(l, r, m[1], m[2], loc[1], loc[2], loc[3]) :
      l \in {"error", MISSING, None}, r \in {"A", MISSING, None},
      m \in MessageShapes, loc \in LocationShapes }

OneError == << Entry("error", "X", "obj", "boom", MISSING, MISSING, MISSING) >>
NullText == << Entry("error", "X", "obj", "boom", "list", UriCore, "7"),
               Entry("warning", "Y", "obj", None, "list", UriCore, "9") >>
NullLevel == << Entry("error", "X", "obj", "boom", "list", UriCore, "7"),
                Entry(None, "Y", "obj", "boom", "list", UriCore, "9") >>

Tokens == {"-h", "--help", "-s", "-g", "-q", "--bogus", LocalPath, "error"}

Thresholds == { << >>, << "-s", "error" >>, << "--severity", "warning" >>, << "-s", "note" >>,
                << "-s", "info" >>, << "-s", "" >> }
Modes == { << >>, << "--group" >>, << "--quiet" >> }

Start ==
  /\ pc = "args" /\ i = 0
  /\ sarif_path = DEFAULT_SARIF /\ min_severity = None
  /\ group = FALSE /\ quiet = FALSE
  /\ results = << >> /\ shown = << >> /\ by_rule = << >> /\ k = 0
  /\ stdout = << >> /\ stderr = << >> /\ exit_code = 0

\* any short command line over a few reports
InitCli ==
  /\ argv \in SeqsUpTo(Tokens, MaxArgs)
  /\ \E d \in {Absent, Sarif(OneError)},
        l \in {Absent, Garbage, Sarif(NullText), Sarif(NullLevel)} :
       files = [p \in Paths |-> IF p = DEFAULT_SARIF THEN d ELSE l]
  /\ Start

\* any short report of the default path, under every threshold and mode
InitReport ==
  /\ \E t \in Thresholds, m \in Modes : argv = t \o m
  /\ \E raw \in SeqsUpTo(LevelRuleEntries, MaxResults) :
       files = [p \in Paths |-> IF p = DEFAULT_SARIF THEN Sarif(raw) ELSE Absent]
  /\ Start

\* one-entry reports of every shape, flat and grouped
InitShape ==
  /\ argv \in { << >>, << "-g" >> }
  /\ \E e \in ShapeEntries :
       files = [p \in Paths |-> IF p = DEFAULT_SARIF THEN Sarif(<< e >>) ELSE Absent]
  /\ Start

Init == InitCli \/ InitReport \/ InitShape

Spec == Init /\ [][Next]_vars

\* ------------------------------------------------------------------- claims
\* runs[0].results of the report main reads
Raw == files[sarif_path].results

\* the summary of print_results is on standard output
Summarized == \E n \in 1..Len(stdout) : stdout[n].kind = "summary"

\* parse_results has returned
Loaded == pc \in {"print", "groups", "flat"} \/ (pc = "done" /\ Summarized)

\* print_results returned normally
Returned == pc = "done" /\ exit_code = 0 /\ Summarized

LinesOf(kind) == SelectSeq(stdout, LAMBDA line : line.kind = kind)

\* C1: the sequence parse_results returns is a permutation of the findings of
\* the report's results that is monotonic in severity rank and keeps findings
\* of equal rank in report order.
C1_SortedStable ==
  Loaded =>
    /\ Len(results) = Len(Raw)
    /\ \A a, b \in 1..Len(results) :
         a < b => Rank(results[a].level) <= Rank(results[b].level)
    /\ \E p \in Permutations(1..Len(Raw)) :
         /\ \A n \in 1..Len(Raw) : results[n] = Finding(Raw[p[n]])
         /\ \A a, b \in 1..Len(Raw) :
              (a < b /\ Rank(results[a].level) = Rank(results[b].level)) => p[a] < p[b]

\* the sort moved a finding, and two different findings tie
C1_Witness ==
  /\ Loaded
  /\ results # Parsed(Raw)
  /\ \E a, b \in 1..Len(results) :
       a < b /\ results[a] # results[b] /\ Rank(results[a].level) = Rank(results[b].level)

\* C2: print_results summarizes and displays exactly the findings whose rank
\* is at most the threshold's, in their original relative order; without a
\* threshold, and with a threshold name outside error/warning/note, every
\* finding is kept.
Kept == {n \in 1..Len(results) : Rank(results[n].level) <= Rank(min_severity)}

C2_FilterSubsequence ==
  Summarized =>
    /\ Len(shown) = Cardinality(Kept)
    /\ \E f \in [1..Len(shown) -> Kept] :
         /\ \A a, b \in 1..Len(shown) : a < b => f[a] < f[b]
         /\ \A n \in 1..Len(shown) : shown[n] = results[f[n]]
    /\ min_severity = None => shown = results
    /\ min_severity \notin DOMAIN SEVERITY_ORDER => shown = results
    /\ LinesOf("summary")[1].total = Len(shown)
    /\ (~quiet /\ ~group) =>
         /\ Len(LinesOf("flat")) <= Len(shown)
         /\ \A n \in 1..Len(LinesOf("flat")) : LinesOf("flat")[n] = FlatLine(shown[n])
         /\ Returned => Len(LinesOf("flat")) = Len(shown)

\* a threshold dropped some findings and kept several, all printed
C2_Witness ==
  /\ Returned /\ ~quiet /\ ~group
  /\ min_severity = "warning"
  /\ Len(shown) >= 2 /\ Len(shown) < Len(results)
  /\ shown[1].level # shown[2].level

\* an unrecognized threshold name kept findings of every rank
C2_WitnessUnrecognized ==
  /\ Returned
  /\ min_severity = "info"
  /\ \E n \in 1..Len(shown) : Rank(shown[n].level) = UnknownRank

RECURSIVE SumCounts(_)
SumCounts(parts) == IF parts = << >> THEN 0 ELSE Head(parts).count + SumCounts(Tail(parts))

Unrecognized(rs) == {n \in 1..Len(rs) : rs[n].level \notin {"error", "warning", "note"}}

\* C3: the summary's total is the number of (filtered) findings, the counts
\* itemized for error, warning and note sum to at most the total, and the
\* difference is the number of findings of any other severity.
C3_SummaryCounts ==
  Summarized =>
    LET line == LinesOf("summary")[1] IN
      /\ Len(LinesOf("summary")) = 1
      /\ stdout[1] = line
      /\ line.total = Len(shown)
      /\ \A n \in 1..Len(line.parts) : line.parts[n].level \in {"error", "warning", "note"}
      /\ SumCounts(line.parts) <= line.total
      /\ line.total - SumCounts(line.parts) = Cardinality(Unrecognized(shown))

\* a summary with itemized and unrecognized findings
C3_Witness ==
  /\ Summarized
  /\ Len(LinesOf("summary")[1].parts) >= 2
  /\ Cardinality(Unrecognized(shown)) >= 1

\* the members of the group a header names, as indices of shown
Members(rule) == {n \in 1..Len(shown) : Fmt(shown[n].rule) = rule}
First(S) == CHOOSE n \in S : \A m \in S : n <= m
GroupMode == group /\ ~quiet /\ Summarized

\* C4: in group mode the groups are printed in non-decreasing order of the
\* rank of their first member, and a group's header carries the severity of
\* its most severe member.
C4_GroupOrderAndLabel ==
  GroupMode =>
    LET hs == LinesOf("header") IN
      /\ \A a, b \in 1..Len(hs) :
           a < b => Rank(shown[First(Members(hs[a].rule))].level)
                      <= Rank(shown[First(Members(hs[b].rule))].level)
      /\ \A a \in 1..Len(hs) :
           \E m \in Members(hs[a].rule) :
             /\ hs[a].level = Pad(shown[m].level, LevelWidth)
             /\ \A n \in Members(hs[a].rule) : Rank(shown[m].level) <= Rank(shown[n].level)

\* two groups were printed, the first of them with members of two severities
C4_Witness ==
  /\ GroupMode /\ Returned
  /\ Len(LinesOf("header")) >= 2
  /\ \E m, n \in Members(LinesOf("header")[1].rule) : shown[m].level # shown[n].level
  /\ results # Parsed(Raw)

RECURSIVE SumSizes(_)
SumSizes(hs) == IF hs = << >> THEN 0 ELSE Head(hs).size + SumSizes(Tail(hs))

\* C5: in group mode the groups partition the (filtered) findings by rule:
\* every finding is in exactly one group, the members of a group share its
\* rule, and the printed group sizes sum to the summary's total.
C5_GroupsPartition ==
  GroupMode =>
    /\ \A a, b \in 1..Len(by_rule) : a # b => by_rule[a].rule # by_rule[b].rule
    /\ \A a \in 1..Len(by_rule) :
         /\ by_rule[a].items # << >>
         /\ \A n \in 1..Len(by_rule[a].items) : by_rule[a].items[n].rule = by_rule[a].rule
    /\ \A n \in 1..Len(shown) :
         Cardinality({a \in 1..Len(by_rule) : by_rule[a].rule = shown[n].rule}) = 1
    /\ \A a \in 1..Len(by_rule) :
         Len(by_rule[a].items) = Cardinality({n \in 1..Len(shown) : shown[n].rule = by_rule[a].rule})
    /\ Len(LinesOf("header")) <= Len(by_rule)
    /\ \A a \in 1..Len(LinesOf("header")) :
         /\ LinesOf("header")[a].rule = Fmt(by_rule[a].rule)
         /\ LinesOf("header")[a].size = Len(by_rule[a].items)
    /\ Returned =>
         /\ Len(LinesOf("header")) = Len(by_rule)
         /\ SumSizes(LinesOf("header")) = LinesOf("summary")[1].total
         /\ Len(LinesOf("item")) = LinesOf("summary")[1].total

\* two groups were printed, one of them with several members
C5_Witness ==
  /\ GroupMode /\ Returned
  /\ Len(by_rule) = 2
  /\ \E a \in 1..Len(by_rule) : Len(by_rule[a].items) >= 2

\* the loop of main reads argv[n] as an option, unless it has exited before
RECURSIVE IsOptionPos(_)
IsOptionPos(n) ==
  \/ n = 1
  \/ n > 1 /\ argv[n - 1] \notin {"-s", "--severity"} /\ IsOptionPos(n - 1)
  \/ n > 2 /\ argv[n - 2] \in {"-s", "--severity"} /\ IsOptionPos(n - 2)

IsHelpFlag(a) == a \in {"-h", "--help"}
IsUnknownFlag(a) ==
  /\ Len(a) >= 1 /\ SubSeq(a, 1, 1) = "-"
  /\ a \notin {"-h", "--help", "-s", "--severity", "-g", "--group", "-q", "--quiet"}

\* the options at which the loop exits
Stops == {n \in 1..Len(argv) : IsOptionPos(n) /\ (IsHelpFlag(argv[n]) \/ IsUnknownFlag(argv[n]))}

HelpOnly ==
  /\ exit_code = 0
  /\ stdout = << UsageLine >> /\ stderr = << >>
  /\ results = << >> /\ shown = << >>

UsageError(a) ==
  /\ exit_code = 1
  /\ stdout = << >> /\ stderr = << "Unknown option: " \o a >>
  /\ results = << >> /\ shown = << >>

\* C6 as claimed: an argument list that contains -h or --help prints the usage
\* text and exits with status 0 without any other processing.
C6_HelpAnywhere ==
  (pc = "done" /\ \E n \in 1..Len(argv) : IsHelpFlag(argv[n])) => HelpOnly

\* C6 amended: when the first option at which the scan exits is -h or --help
\* (read as an option, not as the value of -s/--severity, with no unknown flag
\* read before it), the program prints the usage text and exits with status 0
\* without any other processing.
C6_HelpWhenReached ==
  (pc = "done" /\ Stops # {} /\ IsHelpFlag(argv[First(Stops)])) => HelpOnly

\* help was reached after other options
C6_Witness ==
  /\ pc = "done" /\ Stops # {} /\ IsHelpFlag(argv[First(Stops)])
  /\ First(Stops) = Len(argv) /\ Len(argv) >= 3
  /\ argv[1] \in {"-s", "--severity"}

\* C7 as claimed: an argument list that contains an unknown flag reports the
\* error on standard error and exits with status 1, standard output empty.
C7_UnknownAnywhere ==
  (pc = "done" /\ \E n \in 1..Len(argv) : IsUnknownFlag(argv[n])) =>
    \E n \in 1..Len(argv) : IsUnknownFlag(argv[n]) /\ UsageError(argv[n])

\* C7 amended: when the first option at which the scan exits is an unknown
\* flag (read as an option, with no -h/--help read before it), the program
\* reports it on standard error and exits with status 1, standard output empty.
C7_UnknownWhenReached ==
  (pc = "done" /\ Stops # {} /\ IsUnknownFlag(argv[First(Stops)])) =>
    UsageError(argv[First(Stops)])

\* an unknown flag was reached after other options
C7_Witness ==
  /\ pc = "done" /\ Stops # {} /\ IsUnknownFlag(argv[First(Stops)])
  /\ First(Stops) = Len(argv) /\ Len(argv) >= 3
  /\ \E n \in 1..Len(argv) : argv[n] \in {"-g", "--group", "-q", "--quiet"}

\* everything the run was asked to print is on standard output
FullOutput ==
  \/ stdout = << UsageLine >>
  \/ /\ Summarized
     /\ quiet => Len(stdout) = Len(<< SummaryLine(shown), BlankLine >>)
     /\ (~quiet /\ group) => SumSizes(LinesOf("header")) = Len(shown)
     /\ (~quiet /\ ~group) => Len(LinesOf("flat")) = Len(shown)

\* C8: a run either completes with the full summary (and detail) on standard
\* output, or ends in an error with nothing on standard output.
C8_NoPartialOutput ==
  pc = "done" =>
    \/ exit_code = 0 /\ FullOutput
    \/ exit_code # 0 /\ stdout = << >>

\* the finding the n-th flat line prints
FlatLines == LinesOf("flat")
FlatMode == ~group /\ ~quiet /\ Summarized

IsPrefix(p, t) == Len(p) <= Len(t) /\ SubSeq(t, 1, Len(p)) = p

\* C9 as claimed: every flat line has a location field of exactly 70
\* characters and a message field of at most the first 100 characters.
C9_FixedWidth ==
  FlatMode =>
    \A n \in 1..Len(FlatLines) :
      /\ Len(FlatLines[n].loc) = LocWidth
      /\ Len(FlatLines[n].msg) <= MsgLimit
      /\ IsPrefix(FlatLines[n].msg, shown[n].message)

\* C9 amended: every flat line has a location field of at least 70
\* characters, a shorter location padded with spaces to exactly 70 and a
\* longer one printed in full, and a message field that is the first 100
\* characters of the message; on return there is one line per finding.
C9_PaddedNotTruncated ==
  FlatMode =>
    /\ Len(FlatLines) <= Len(shown)
    /\ Returned => Len(FlatLines) = Len(shown)
    /\ \A n \in 1..Len(FlatLines) :
         LET loc == shown[n].location
             fld == FlatLines[n].loc
             msg == FlatLines[n].msg
         IN  /\ IsPrefix(loc, fld)
             /\ Len(fld) = IF Len(loc) >= LocWidth THEN Len(loc) ELSE LocWidth
             /\ \A c \in (Len(loc) + 1)..Len(fld) : SubSeq(fld, c, c) = " "
             /\ IsPrefix(msg, shown[n].message)
             /\ Len(msg) = IF Len(shown[n].message) >= MsgLimit THEN MsgLimit
                           ELSE Len(shown[n].message)

\* a line with a location longer than the column and a message cut short
C9_Witness ==
  /\ FlatMode /\ Returned
  /\ \E n \in 1..Len(FlatLines) :
       /\ Len(FlatLines[n].loc) > LocWidth
       /\ Len(FlatLines[n].msg) < Len(shown[n].message)

\* C10: every Finding parse_results produces has a non-null severity, rule,
\* message and location, also for entries whose values are JSON null.
C10_NonNullFindings ==
  Loaded =>
    \A n \in 1..Len(results) :
      /\ results[n].level # None
      /\ results[n].rule # None
      /\ results[n].message # None
      /\ results[n].location # None

====
